---------------------------- MODULE Spec2Model ----------------------------
(***************************************************************************)
(* A model of the VOC analytics engine of src/python/voc-report/           *)
(* voc_analyzer.py, of the API of src/api/main.py that serves and rebuilds *)
(* its report, and of the report file they share with the dashboard.       *)
(*                                                                         *)
(* Text.  A Python str is modelled as a sequence of tokens; a token is a   *)
(* TLA+ string standing for a run of characters of the source text.  The   *)
(* Korean terms of the source are written romanised (TLA+ strings are      *)
(* ASCII); the comment beside each use gives the original.                 *)
(*                                                                         *)
(* Time.  An instant is an integer number of hours since                   *)
(* 2024-01-01T00:00:00Z.  Asia/Seoul is UTC+9 with no daylight saving      *)
(* time (true of every instant since 1988-10-09).                          *)
(***************************************************************************)
EXTENDS Integers, Sequences, FiniteSets, TLC

VARIABLES
    pc,      \* position of the running operation
    raw,     \* the table handed to standardise_columns
    df,        \* the DataFrame the engine works on
    reference, \* the reference instant handed to compute_recent_windows_kst
    windows,   \* the windows it returned
    issue_keys, \* the Series compose_issue_keys returned
    phases,    \* the Series df.apply(determine_phase_from_row, axis=1) returned
    clock,     \* the wall clock, read by pd.Timestamp.now(tz="Asia/Seoul")
    frozen,    \* TRUE when the wall clock is frozen (a fixed reference instant)
    now_kst,   \* build_report: now_kst
    stats,     \* build_report: stats
    reports,   \* the reports build_report has returned, oldest first
    args,      \* the arguments, other than df, of the aggregation being applied
    result,    \* the value the aggregation returned
    report_file, \* the file at the report path (voc_report.json)
    engine,    \* the analyzer process POST /report/rebuild started
    responses  \* the HTTP responses the API has sent, oldest first

vars == <<pc, raw, df, reference, windows, issue_keys, phases, clock, frozen, now_kst, stats, reports,
          args, result, report_file, engine, responses>>

\* The variables of each group of operations.
textVars == <<raw>>
winVars == <<reference, windows>>
rowVars == <<issue_keys, phases>>
reportVars == <<clock, frozen, now_kst, stats, reports>>
aggVars == <<args, result>>
apiVars == <<report_file, engine, responses>>

(***************************************************************************)
(* Generic helpers                                                         *)
(***************************************************************************)

\* pandas NaT: a missing or invalid timestamp.
NaT == -1000000

\* The value of a variable an operation has not set yet.
NoWindows == [full |-> <<>>, recent_30d |-> <<>>, prev_30d |-> <<>>, recent_90d |-> <<>>]

\* Python None / pandas NaN in a cell.
NoneVal == <<"#None">>

\* stats before summarise_stats has run.
NoStats == [total_count |-> 0]

\* No build_report is running and none has run.
ReportIdle ==
    /\ clock = 0
    /\ frozen = TRUE
    /\ now_kst = NaT
    /\ stats = NoStats
    /\ reports = <<>>

\* The report file before any analyzer run.
NoFile == [exists |-> FALSE]

\* No analyzer process.
EngineOff == [pc |-> "off"]

\* No aggregation is being applied.
AggIdle ==
    /\ args = <<>>
    /\ result = <<>>

\* No API request has been made and no analyzer has run.
ApiIdle ==
    /\ report_file = NoFile
    /\ engine = EngineOff
    /\ responses = <<>>

\* The DataFrame with no column and no row.
NoTable == [columns |-> <<>>, rows |-> <<>>]

\* pd.isna(value)
IsNa(v) == v = NoneVal

\* row.get(col): the cell, or None when the row has no such column.
Get(row, col) == IF col \in DOMAIN row THEN row[col] ELSE NoneVal

RECURSIVE LStrip(_)
\* str.lstrip(): drop leading whitespace.
LStrip(s) == IF s # <<>> /\ Head(s) = "sp" THEN LStrip(Tail(s)) ELSE s

RECURSIVE RStrip(_)
\* str.rstrip(): drop trailing whitespace.
RStrip(s) ==
    IF s # <<>> /\ s[Len(s)] = "sp" THEN RStrip(SubSeq(s, 1, Len(s) - 1)) ELSE s

\* str.strip()
Strip(s) == RStrip(LStrip(s))

\* str.lower() on one token: only the ASCII letters have a lower case.
LowerTok(t) ==
    CASE t = "Desc" -> "desc"
      [] t = "Description" -> "description"
      [] t = "QR" -> "qr"
      [] OTHER -> t

\* str.lower()
Lower(s) == [i \in 1..Len(s) |-> LowerTok(s[i])]

\* `needle in s` for a one-token needle.
HasTok(s, tok) == \E i \in 1..Len(s) : s[i] = tok

(***************************************************************************)
(* JSON object literals (is_json_object, json.loads)                       *)
(*                                                                         *)
(* Tokens of a serialized object: "{" "}" ","; a key with its colon        *)
(* ("k_desc" is `"desc":`); a value ("v_text" is `"broken laptop"`).       *)
(***************************************************************************)
JsonKeys == {"k_desc", "k_description", "k_id"}

JsonValues == {"v_text", "v_pad", "v_blank", "v_empty", "v_json", "v_obj", "v_num", "v_zero", "v_null"}

\* bool(value) of a parsed JSON value.
Truthy(v) == v \in {"v_text", "v_pad", "v_blank", "v_json", "v_obj", "v_num"}

\* str(value) of a parsed JSON value.
StrOf(v) ==
    CASE v = "v_text"  -> <<"x">>                      \* "broken laptop"
      [] v = "v_pad"   -> <<"sp", "x", "sp">>          \* " broken laptop "
      [] v = "v_blank" -> <<"sp">>                     \* " "
      [] v = "v_empty" -> <<>>                         \* ""
      [] v = "v_json"  -> <<"{", "}">>                 \* "{}" (a string holding an object literal)
      [] v = "v_obj"   -> <<"{", "pyrepr", "}">>       \* {"a": 1} -> "{'a': 1}"
      [] v = "v_num"   -> <<"7">>
      [] v = "v_zero"  -> <<"0">>
      [] OTHER         -> <<"None">>

\* The dict with no key.
EmptyDict == [k \in JsonKeys |-> "absent"]

RECURSIVE ParseMembers(_, _)
\* The members of an object, left to right; a repeated key keeps the last value.
ParseMembers(s, acc) ==
    IF Len(s) < 2 \/ s[1] \notin JsonKeys \/ s[2] \notin JsonValues
    THEN [ok |-> FALSE, d |-> EmptyDict]
    ELSE LET acc2 == [acc EXCEPT ![s[1]] = s[2]] IN
         IF Len(s) = 2 THEN [ok |-> TRUE, d |-> acc2]
         ELSE IF s[3] = "," THEN ParseMembers(SubSeq(s, 4, Len(s)), acc2)
         ELSE [ok |-> FALSE, d |-> EmptyDict]

\* JSON ignores whitespace between tokens.
NoWs(s) == SelectSeq(s, LAMBDA t : t # "sp")

\* json.loads(text): ok is FALSE where it raises.
JsonLoads(text) ==
    LET s == NoWs(text) IN
    IF Len(s) < 2 \/ s[1] # "{" \/ s[Len(s)] # "}"
    THEN [ok |-> FALSE, d |-> EmptyDict]
    ELSE IF Len(s) = 2 THEN [ok |-> TRUE, d |-> EmptyDict]
    ELSE ParseMembers(SubSeq(s, 2, Len(s) - 1), EmptyDict)

\* parsed.get(key)
DictGet(d, key) == d[key]

\* is_json_object(value)
is_json_object(value) ==
    IF IsNa(value) THEN FALSE
    ELSE LET text == Strip(value) IN
         IF ~(Len(text) >= 1 /\ text[1] = "{" /\ text[Len(text)] = "}") THEN FALSE
         ELSE JsonLoads(text).ok

(***************************************************************************)
(* standardise_columns / assign_content_text                               *)
(***************************************************************************)

\* The characters of each column label.
LabelText ==
    [ munuinaeyong |-> <<"munui", "naeyong">>,                 \* 문의내용
      content      |-> <<"content">>,
      munui_sangse_naeyong |-> <<"munui", "sp", "sangse", "sp", "naeyong">>,  \* 문의 상세 내용
      Desc         |-> <<"Desc">>,
      Description  |-> <<"Description">>,
      daebunryu    |-> <<"daebunryu">>,                        \* 대분류
      category     |-> <<"category">>,
      content_text |-> <<"content_text">> ]

\* column_map of standardise_columns: the canonical name of a source label.
ColumnMap(label) ==
    CASE label = "munuinaeyong" -> "content"
      [] label = "daebunryu" -> "category"
      [] OTHER -> label

\* The candidate columns of assign_content_text, in column order.
CandidateColumns(columns) ==
    SelectSeq(columns, LAMBDA col :
        LET name == LabelText[col] IN
        \/ HasTok(name, "munui") /\ HasTok(name, "naeyong")
        \/ Lower(name) \in {<<"desc">>, <<"description">>})

RECURSIVE ScanCandidates(_, _)
\* The first candidate cell that is not missing, not blank and no object literal.
ScanCandidates(row, cols) ==
    IF cols = <<>> THEN NoneVal
    ELSE LET value == Get(row, Head(cols)) IN
         IF IsNa(value) THEN ScanCandidates(row, Tail(cols))
         ELSE LET text == Strip(value) IN
              IF text = <<>> THEN ScanCandidates(row, Tail(cols))
              ELSE IF is_json_object(text) THEN ScanCandidates(row, Tail(cols))
              ELSE text

\* The desc/description of a structured `content`, or None.
DescOfContent(row) ==
    LET rawc == Get(row, "content") IN
    IF ~IsNa(rawc) /\ is_json_object(rawc)
    THEN LET parsed == JsonLoads(rawc).d
             d1 == DictGet(parsed, "k_desc")
             desc == IF d1 # "absent" /\ Truthy(d1) THEN d1 ELSE DictGet(parsed, "k_description")
         IN IF desc # "absent" /\ Truthy(desc) THEN Strip(StrOf(desc)) ELSE NoneVal
    ELSE NoneVal

\* The content_text of one row.
ContentTextOf(row, cands) ==
    LET c1 == ScanCandidates(row, cands)
        c2 == IF IsNa(c1) THEN DescOfContent(row) ELSE c1
        fallback == Get(row, "content")
        c3 == IF IsNa(c2) /\ ~IsNa(fallback) THEN Strip(fallback) ELSE c2
    IN IF IsNa(c3) THEN <<>> ELSE c3

\* assign_content_text(df)
assign_content_text(t) ==
    LET cands == CandidateColumns(t.columns) IN
    [ columns |-> Append(t.columns, "content_text"),
      rows |-> [i \in 1..Len(t.rows) |->
                  [col \in DOMAIN t.rows[i] \cup {"content_text"} |->
                      IF col = "content_text" THEN ContentTextOf(t.rows[i], cands)
                      ELSE t.rows[i][col]]] ]

\* df.rename(columns=column_map)
RenameColumns(t) ==
    [ columns |-> [i \in 1..Len(t.columns) |-> ColumnMap(t.columns[i])],
      rows |-> [i \in 1..Len(t.rows) |->
                  [col \in {ColumnMap(l) : l \in DOMAIN t.rows[i]} |->
                      t.rows[i][CHOOSE l \in DOMAIN t.rows[i] : ColumnMap(l) = col]]] ]

\* standardise_columns(df), for a table with no created_at column.
standardise_columns(t) == assign_content_text(RenameColumns(t))

(***************************************************************************)
(* SpecText: standardise_columns over small tables                         *)
(***************************************************************************)
MaxTextRows == 1

\* The cell values of the tables.
CellValues ==
    { NoneVal,
      <<>>,
      <<"sp">>,
      <<"x">>,
      <<"sp", "x", "sp">>,
      <<"{", "}">>,
      <<"{", "x", "}">>,
      <<"{", "k_desc", "v_text">>,
      <<"{", "k_desc", "v_text", "}">>,
      <<"sp", "{", "sp", "k_desc", "v_pad", "}", "sp">>,
      <<"{", "k_description", "v_text", "}">>,
      <<"{", "k_id", "v_num", "}">>,
      <<"{", "k_desc", "v_empty", "}">>,
      <<"{", "k_desc", "v_null", ",", "k_description", "v_text", "}">>,
      <<"{", "k_desc", "v_zero", ",", "k_id", "v_num", "}">>,
      <<"{", "k_desc", "v_json", "}">>,
      <<"{", "k_desc", "v_obj", "}">>,
      <<"{", "k_desc", "v_blank", "}">> }

\* The headers of the tables (none has two labels of one canonical name).
Headers ==
    { <<"content">>,
      <<"munuinaeyong">>,
      <<"munui_sangse_naeyong", "content">>,
      <<"Desc", "munuinaeyong">>,
      <<"munui_sangse_naeyong", "Description">>,
      <<"daebunryu">> }

Range(s) == {s[i] : i \in 1..Len(s)}

\* A table of up to MaxTextRows rows under one of the headers.
InitText ==
    /\ pc = "raw"
    /\ \E h \in Headers : \E n \in 0..MaxTextRows :
         \E r \in [1..n -> [Range(h) -> CellValues]] :
            raw = [columns |-> h, rows |-> r]
    /\ df = NoTable
    /\ reference = NaT
    /\ windows = NoWindows
    /\ issue_keys = <<>>
    /\ phases = <<>>
    /\ ReportIdle
    /\ AggIdle
    /\ ApiIdle

\* standardise_columns(df) as called by fetch_raw_data.
StandardiseColumns ==
    /\ pc = "raw"
    /\ df' = standardise_columns(raw)
    /\ pc' = "standardised"
    /\ UNCHANGED <<aggVars, apiVars, raw, winVars, rowVars, reportVars>>

NextText == StandardiseColumns

SpecText == InitText /\ [][NextText]_vars

\* C1: after standardise_columns every row's content_text is a plain string and
\* never a structured object literal.
C1_ContentTextNeverStructured ==
    pc = "standardised" =>
        \A i \in 1..Len(df.rows) : ~is_json_object(df.rows[i]["content_text"])

(***************************************************************************)
(* compute_recent_windows_kst                                              *)
(***************************************************************************)
HOURS_PER_DAY == 24

\* The UTC offset of Asia/Seoul, in hours.
KST_OFFSET == 9

\* pd.Timedelta(days=n)
Days(n) == n * HOURS_PER_DAY

\* Timestamp.tz_convert("Asia/Seoul").normalize(): the instant of the local
\* midnight that starts the instant's Asia/Seoul calendar day.
KstNormalize(t) ==
    IF t = NaT THEN NaT
    ELSE ((t + KST_OFFSET) \div HOURS_PER_DAY) * HOURS_PER_DAY - KST_OFFSET

\* a < b on timestamps: False when either side is NaT.
TsLt(a, b) == a # NaT /\ b # NaT /\ a < b

\* a >= b on timestamps: False when either side is NaT.
TsGe(a, b) == a # NaT /\ b # NaT /\ a >= b

\* "created_at" in df.columns
HasColumn(d, col) == \E i \in 1..Len(d.columns) : d.columns[i] = col

\* pd.to_datetime(df["created_at"], errors="coerce", utc=True), row i.
CreatedOf(d, i) == d.rows[i]["created_at"]

\* tomorrow0 = today0 + 1 day
Tomorrow0(today0) == today0 + Days(1)

\* start30 = today0 - 29 days
Start30(today0) == today0 - Days(29)

\* prev_start30 = start30 - 30 days
PrevStart30(today0) == Start30(today0) - Days(30)

\* A prev_end30 that overlaps the recent window by one day.
PrevEnd30_overlap(today0) == Start30(today0) + Days(1)

\* prev_end30 = start30
PrevEnd30(today0) == Start30(today0)

\* start90 = today0 - 89 days
Start90(today0) == today0 - Days(89)

\* df[mask]: the index labels of the rows the boolean mask keeps, in order.
Where(d, mask) == SelectSeq([i \in 1..Len(d.rows) |-> i], LAMBDA i : mask[i])

\* A `full` that keeps only the rows with a valid created_at.
FullWindow_valid(d) ==
    Where(d, [i \in 1..Len(d.rows) |-> HasColumn(d, "created_at") /\ CreatedOf(d, i) # NaT])

\* "full": df
FullWindow(d) == Where(d, [i \in 1..Len(d.rows) |-> TRUE])

\* A mask_recent_30 without the future-date exclusion.
MaskRecent30_nofuture(day, today0) == day # NaT /\ TsGe(day, Start30(today0))

\* mask_recent_30
MaskRecent30(day, today0) ==
    day # NaT /\ TsLt(day, Tomorrow0(today0)) /\ TsGe(day, Start30(today0))

\* mask_prev_30
MaskPrev30(day, today0) ==
    day # NaT /\ TsGe(day, PrevStart30(today0)) /\ TsLt(day, PrevEnd30(today0))

\* mask_recent_90
MaskRecent90(day, today0) ==
    day # NaT /\ TsLt(day, Tomorrow0(today0)) /\ TsGe(day, Start90(today0))

\* The day of a row taken from its UTC timestamp, with no conversion.
CreatedKstDay_utc(d, i) ==
    IF CreatedOf(d, i) = NaT THEN NaT
    ELSE (CreatedOf(d, i) \div HOURS_PER_DAY) * HOURS_PER_DAY

\* created_kst_day of row i
CreatedKstDay(d, i) == KstNormalize(CreatedOf(d, i))

\* compute_recent_windows_kst(df, reference), reference given.
compute_recent_windows_kst(d, ref) ==
    LET empty == <<>> IN
    IF ~HasColumn(d, "created_at")
    THEN [full |-> FullWindow(d), recent_30d |-> empty, recent_90d |-> empty, prev_30d |-> empty]
    ELSE IF \A i \in 1..Len(d.rows) : CreatedOf(d, i) = NaT
    THEN [full |-> FullWindow(d), recent_30d |-> empty, recent_90d |-> empty, prev_30d |-> empty]
    ELSE LET today0 == KstNormalize(ref) IN
         [ full |-> FullWindow(d),
           recent_30d |-> Where(d, [i \in 1..Len(d.rows) |-> MaskRecent30(CreatedKstDay(d, i), today0)]),
           prev_30d |-> Where(d, [i \in 1..Len(d.rows) |-> MaskPrev30(CreatedKstDay(d, i), today0)]),
           recent_90d |-> Where(d, [i \in 1..Len(d.rows) |-> MaskRecent90(CreatedKstDay(d, i), today0)]) ]

(***************************************************************************)
(* SpecWin: compute_recent_windows_kst over small tables                   *)
(***************************************************************************)
MaxWinRows == 2

\* The UTC day (days since 2024-01-01) the reference instants fall on: 2024-04-10.
RefDay == 100

\* Hours of the UTC day that fall on either side of the Asia/Seoul midnight (15:00Z).
HoursOfDay == {0, 14, 15, 23}

\* The reference instants.
References == {Days(RefDay) + h : h \in HoursOfDay}

\* Days, relative to RefDay, on either side of every window boundary.
DayOffsets ==
    {-90, -89, -88, -60, -59, -58, -30, -29, -28, 0, 1, 2}

\* The created_at values.
CreatedValues ==
    {NaT} \cup {Days(RefDay + o) + h : o \in DayOffsets, h \in HoursOfDay}

\* A table with a created_at column, or one without.
InitWin ==
    /\ pc = "ready"
    /\ raw = NoTable
    /\ issue_keys = <<>>
    /\ phases = <<>>
    /\ ReportIdle
    /\ AggIdle
    /\ ApiIdle
    /\ \E n \in 0..MaxWinRows :
         \/ \E r \in [1..n -> [created_at : CreatedValues]] :
              df = [columns |-> <<"created_at">>, rows |-> r]
         \/ df = [columns |-> <<"content">>, rows |-> [i \in 1..n |-> [content |-> <<"x">>]]]
    /\ reference \in References
    /\ windows = NoWindows

\* windows = compute_recent_windows_kst(df, reference=reference)
ComputeWindows ==
    /\ pc = "ready"
    /\ windows' = compute_recent_windows_kst(df, reference)
    /\ pc' = "windowed"
    /\ UNCHANGED <<aggVars, apiVars, raw, df, reference, rowVars, reportVars>>

NextWin == ComputeWindows

SpecWin == InitWin /\ [][NextWin]_vars

\* The Asia/Seoul calendar date of an instant, as a day number.
LocalDate(t) == (t + KST_OFFSET) \div HOURS_PER_DAY

\* The UTC calendar date of an instant, as a day number.
UtcDate(t) == t \div HOURS_PER_DAY

\* Row i is in window w.
InWin(w, i) == \E k \in 1..Len(windows[w]) : windows[w][k] = i

\* The rows with a valid created_at.
ValidRows == {i \in 1..Len(df.rows) : HasColumn(df, "created_at") /\ CreatedOf(df, i) # NaT}

\* The reference's local date.
Today == LocalDate(reference)

\* C2 as stated: a row dated today0 is in recent_30d and recent_90d and not in
\* prev_30d; a row dated today0 - 30 days is in prev_30d only; a row dated
\* today0 + 1 day is in no named window.
C2_Original ==
    pc = "windowed" =>
        \A i \in ValidRows :
            LET dd == LocalDate(CreatedOf(df, i)) IN
            /\ dd = Today =>
                 InWin("recent_30d", i) /\ InWin("recent_90d", i) /\ ~InWin("prev_30d", i)
            /\ dd = Today - 30 =>
                 InWin("prev_30d", i) /\ ~InWin("recent_30d", i) /\ ~InWin("recent_90d", i)
            /\ dd = Today + 1 =>
                 ~InWin("recent_30d", i) /\ ~InWin("prev_30d", i) /\ ~InWin("recent_90d", i)

\* C2 amended: a row dated today0 is in recent_30d and recent_90d and not in
\* prev_30d; a row dated today0 - 30 days is in prev_30d and in recent_90d and
\* not in recent_30d; a row dated today0 + 1 day is in no named window.
C2_WindowMembership ==
    pc = "windowed" =>
        \A i \in ValidRows :
            LET dd == LocalDate(CreatedOf(df, i)) IN
            /\ dd = Today =>
                 InWin("recent_30d", i) /\ InWin("recent_90d", i) /\ ~InWin("prev_30d", i)
            /\ dd = Today - 30 =>
                 InWin("prev_30d", i) /\ ~InWin("recent_30d", i) /\ InWin("recent_90d", i)
            /\ dd = Today + 1 =>
                 ~InWin("recent_30d", i) /\ ~InWin("prev_30d", i) /\ ~InWin("recent_90d", i)

\* C2 witness: the windows of a row dated today0 - 30 days have been computed.
C2_Witness ==
    /\ pc = "windowed"
    /\ \E i \in ValidRows : LocalDate(CreatedOf(df, i)) = Today - 30 /\ InWin("prev_30d", i)

\* C3: recent_30d and prev_30d are disjoint: no row belongs to both.
C3_RecentPrevDisjoint ==
    pc = "windowed" =>
        \A i \in 1..Len(df.rows) : ~(InWin("recent_30d", i) /\ InWin("prev_30d", i))

\* C3 witness: on the two sides of the shared boundary, a row in recent_30d on
\* its first day or a row in prev_30d on its last day.
C3_Witness ==
    /\ pc = "windowed"
    /\ \E i \in ValidRows :
         \/ LocalDate(CreatedOf(df, i)) = Today - 29 /\ InWin("recent_30d", i)
         \/ LocalDate(CreatedOf(df, i)) = Today - 30 /\ InWin("prev_30d", i)

\* C4: window membership of a valid row is decided on its Asia/Seoul calendar
\* date: recent_30d iff the date is in [today0 - 29, tomorrow0), prev_30d iff in
\* [today0 - 59, today0 - 29), recent_90d iff in [today0 - 89, tomorrow0).
C4_LocalDateDecides ==
    pc = "windowed" =>
        \A i \in ValidRows :
            LET dd == LocalDate(CreatedOf(df, i)) IN
            /\ InWin("recent_30d", i) <=> (Today - 29 <= dd /\ dd < Today + 1)
            /\ InWin("prev_30d", i) <=> (Today - 59 <= dd /\ dd < Today - 29)
            /\ InWin("recent_90d", i) <=> (Today - 89 <= dd /\ dd < Today + 1)

\* C4 witness: a row in recent_30d whose UTC calendar date lies before the
\* window (its Asia/Seoul date is the window's first day).
C4_Witness ==
    /\ pc = "windowed"
    /\ \E i \in ValidRows :
         /\ InWin("recent_30d", i)
         /\ UtcDate(CreatedOf(df, i)) = Today - 30
         /\ LocalDate(CreatedOf(df, i)) = Today - 29

\* C5: a row with an invalid or missing created_at is in none of recent_30d,
\* prev_30d, recent_90d, yet is in full; with no valid created_at at all (or no
\* such column) the three named windows are empty.
C5_InvalidRowsExcluded ==
    pc = "windowed" =>
        /\ \A i \in (1..Len(df.rows)) \ ValidRows :
             /\ ~InWin("recent_30d", i) /\ ~InWin("prev_30d", i) /\ ~InWin("recent_90d", i)
             /\ InWin("full", i)
        /\ ValidRows = {} =>
             windows.recent_30d = <<>> /\ windows.prev_30d = <<>> /\ windows.recent_90d = <<>>

\* C5 witness: the windows of a table holding a row with an invalid created_at.
C5_Witness ==
    /\ pc = "windowed"
    /\ \E i \in 1..Len(df.rows) : HasColumn(df, "created_at") /\ CreatedOf(df, i) = NaT

(***************************************************************************)
(* Issue keys and phases                                                   *)
(*                                                                         *)
(* Korean text is a sequence of romanised chunks: 지원금 is                *)
(* <<"jiwon", "geum">> (지원 + 금), 장려금 <<"jangryeo", "geum">>,         *)
(* 주변기기 <<"jubyeon", "gigi">>, so that a term that is part of another  *)
(* one is found inside it.                                                 *)
(***************************************************************************)

\* `term in text` / re.search of a literal: term occurs as a run of text.
Contains(text, term) ==
    \E i \in 1..(Len(text) - Len(term) + 1) : SubSeq(text, i, i + Len(term) - 1) = term

\* re.search("(a|b|...)", text): some alternative occurs in text.
ReSearch(alternatives, text) == \E t \in alternatives : Contains(text, t)

\* str(value or ""): a missing or empty cell reads as "".
StrOrEmpty(v) == IF IsNa(v) THEN <<>> ELSE v

\* Series.fillna("").astype(str).str.strip() on one cell.
CleanCell(v) == Strip(StrOrEmpty(v))

\* The sentinel label of an unclassifiable row: 미분류.
UNCLASSIFIED == <<"mibunryu">>

\* The issue key of one row (compose_issue_keys, lines 428-442).
IssueKeyOf(row) ==
    LET categories == CleanCell(Get(row, "category"))
        subcategories == CleanCell(Get(row, "subcategory"))
        key == IF subcategories # <<>>
               THEN categories \o <<" > ">> \o subcategories
               ELSE categories
    IN IF key # <<>> THEN key ELSE UNCLASSIFIED

\* compose_issue_keys(df): one key per row; an empty Series for an empty df.
compose_issue_keys(d) ==
    IF Len(d.rows) = 0 \/ Len(d.columns) = 0 THEN <<>>
    ELSE [i \in 1..Len(d.rows) |-> IssueKeyOf(d.rows[i])]

\* The phase labels of determine_phase_from_row.
PHASE_PREP == "haksup junbi"          \* 학습 준비
PHASE_PROGRESS == "haksup jinhaeng"   \* 학습 진행
PHASE_SUPPORT == "haksup jiwon"       \* 학습 지원
PHASE_ADMIN == "haengjeong cheori"    \* 행정 처리

\* (장비|노트북|맥북|사양|대여|반납|주변기기|모니터|마우스|키보드)
PrepTerms ==
    { <<"jangbi">>, <<"noteubuk">>, <<"maekbuk">>, <<"sayang">>, <<"daeyeo">>,
      <<"bannap">>, <<"jubyeon", "gigi">>, <<"moniteo">>, <<"mauseu">>, <<"kibodeu">> }

\* (플랫폼|실습|콘솔|빌드|로그인|접속|출결|qr|오류|강의실)
ProgressTerms ==
    { <<"peullaetpom">>, <<"silseup">>, <<"konsol">>, <<"bildeu">>, <<"rogeuin">>,
      <<"jeopsok">>, <<"chulgyeol">>, <<"qr">>, <<"oryu">>, <<"ganguisil">> }

\* (장려금|지원금|지급|자격|증빙|정산)
SupportTerms ==
    { <<"jangryeo", "geum">>, <<"jiwon", "geum">>, <<"jigeup">>, <<"jagyeok">>,
      <<"jeungbing">>, <<"jeongsan">> }

\* (수강 변경|휴가|공가|행정|신청|증명서|환불|이관|출석)
AdminTerms ==
    { <<"sugang", "sp", "byeongyeong">>, <<"hyuga">>, <<"gongga">>, <<"haengjeong">>,
      <<"sincheong">>, <<"jeungmyeongseo">>, <<"hwanbul">>, <<"igwan">>, <<"chulseok">> }

\* A pattern list that tests the administrative terms first.
Patterns_adminfirst ==
    << [terms |-> AdminTerms, phase |-> PHASE_ADMIN],
       [terms |-> PrepTerms, phase |-> PHASE_PREP],
       [terms |-> ProgressTerms, phase |-> PHASE_PROGRESS],
       [terms |-> SupportTerms, phase |-> PHASE_SUPPORT] >>

\* patterns of determine_phase_from_row, in order.
Patterns ==
    << [terms |-> PrepTerms, phase |-> PHASE_PREP],
       [terms |-> ProgressTerms, phase |-> PHASE_PROGRESS],
       [terms |-> SupportTerms, phase |-> PHASE_SUPPORT],
       [terms |-> AdminTerms, phase |-> PHASE_ADMIN] >>

\* " ".join(parts)
RECURSIVE JoinSp(_)
JoinSp(parts) ==
    IF parts = <<>> THEN <<>>
    ELSE IF Len(parts) = 1 THEN parts[1]
    ELSE parts[1] \o <<"sp">> \o JoinSp(Tail(parts))

\* The text determine_phase_from_row searches.
PhaseText(row) ==
    Lower(JoinSp(<< StrOrEmpty(Get(row, "category")),
                    StrOrEmpty(Get(row, "subcategory")),
                    StrOrEmpty(Get(row, "content_text")),
                    StrOrEmpty(Get(row, "content")) >>))

\* A default of "other" (기타) for a row that matches no pattern.
DefaultPhase_other == "gita"

\* The phase of a row that matches no pattern.
DefaultPhase == PHASE_PROGRESS

RECURSIVE FirstMatch(_, _)
\* for pattern, phase in patterns: if re.search(pattern, text): return phase
FirstMatch(pats, text) ==
    IF pats = <<>> THEN DefaultPhase
    ELSE IF ReSearch(Head(pats).terms, text) THEN Head(pats).phase
    ELSE FirstMatch(Tail(pats), text)

\* determine_phase_from_row(row)
determine_phase_from_row(row) == FirstMatch(Patterns, PhaseText(row))

\* The phase labels of map_category_to_phase.
CAT_PREP == "junbi"          \* 준비
CAT_PROGRESS == "jinhaeng"   \* 진행
CAT_SUPPORT == "jiwon"       \* 지원
CAT_ADMIN == "haengjeong"    \* 행정
CAT_OTHER == "gita"          \* 기타

\* phase_rules of map_category_to_phase, in order.
PhaseRules ==
    << [keyword |-> <<"jangbi">>, phase |-> CAT_PREP],          \* 장비
       [keyword |-> <<"gigi">>, phase |-> CAT_PREP],            \* 기기
       [keyword |-> <<"hwangyeong">>, phase |-> CAT_PREP],      \* 환경
       [keyword |-> <<"sueop">>, phase |-> CAT_PROGRESS],       \* 수업
       [keyword |-> <<"keorikyulleom">>, phase |-> CAT_PROGRESS], \* 커리큘럼
       [keyword |-> <<"mento">>, phase |-> CAT_PROGRESS],       \* 멘토
       [keyword |-> <<"jiwon">>, phase |-> CAT_SUPPORT],        \* 지원
       [keyword |-> <<"jangryeo", "geum">>, phase |-> CAT_ADMIN], \* 장려금
       [keyword |-> <<"haengjeong">>, phase |-> CAT_ADMIN],     \* 행정
       [keyword |-> <<"chulseok">>, phase |-> CAT_ADMIN] >>     \* 출석

RECURSIVE FirstRule(_, _)
\* for keyword, phase in phase_rules: if keyword in category: return phase
FirstRule(rules, category) ==
    IF rules = <<>> THEN CAT_OTHER
    ELSE IF Contains(category, Head(rules).keyword) THEN Head(rules).phase
    ELSE FirstRule(Tail(rules), category)

\* map_category_to_phase(category)
map_category_to_phase(category) ==
    IF IsNa(category) \/ category = <<>> THEN CAT_OTHER
    ELSE FirstRule(PhaseRules, Lower(Strip(category)))

(***************************************************************************)
(* SpecRow: compose_issue_keys and determine_phase_from_row over small     *)
(* tables                                                                  *)
(***************************************************************************)
MaxClsRows == 1

CategoryValues ==
    { NoneVal, <<"sp">>, <<"sp", "jangbi", "sp">>, <<"sugang">>, <<"QR">>, <<"x">> }

SubcategoryValues == { NoneVal, <<>>, <<"byeongyeong">>, <<"sp", "x">>, <<"chulseok">> }

ContentTextValues == { <<>>, <<"noteubuk">>, <<"hwanbul">> }

ContentValues == { NoneVal, <<"jangryeo", "geum">> }

\* A table with all four columns, or one with only a content column.
InitRow ==
    /\ pc = "ready"
    /\ raw = NoTable
    /\ reference = NaT
    /\ windows = NoWindows
    /\ issue_keys = <<>>
    /\ phases = <<>>
    /\ ReportIdle
    /\ AggIdle
    /\ ApiIdle
    /\ \E n \in 0..MaxClsRows :
         \/ \E r \in [1..n -> [category : CategoryValues, subcategory : SubcategoryValues,
                               content_text : ContentTextValues, content : ContentValues]] :
              df = [columns |-> <<"category", "subcategory", "content", "content_text">>,
                    rows |-> r]
         \/ \E r \in [1..n -> [content_text : ContentTextValues, content : ContentValues]] :
              df = [columns |-> <<"content", "content_text">>, rows |-> r]

\* issue_keys = compose_issue_keys(df)
ComposeIssueKeys ==
    /\ pc = "ready"
    /\ issue_keys' = compose_issue_keys(df)
    /\ pc' = "keyed"
    /\ UNCHANGED <<aggVars, apiVars, raw, df, winVars, phases, reportVars>>

\* phases = df.apply(determine_phase_from_row, axis=1)
DeterminePhases ==
    /\ pc = "ready"
    /\ phases' = [i \in 1..Len(df.rows) |-> determine_phase_from_row(df.rows[i])]
    /\ pc' = "phased"
    /\ UNCHANGED <<aggVars, apiVars, raw, df, winVars, issue_keys, reportVars>>

NextRow == ComposeIssueKeys \/ DeterminePhases

SpecRow == InitRow /\ [][NextRow]_vars

\* The trimmed text of a cell, "" when missing.
Trimmed(row, col) == Strip(IF Get(row, col) = NoneVal THEN <<>> ELSE Get(row, col))

\* C8: the issue key is the trimmed category alone when the subcategory is
\* empty, "{category} > {subcategory}" when it is not, and the sentinel 미분류
\* whenever the category is empty or missing, whatever the subcategory is.
C8_IssueKey ==
    pc = "keyed" =>
        /\ Len(issue_keys) = Len(df.rows)
        /\ \A i \in 1..Len(df.rows) :
             LET c == Trimmed(df.rows[i], "category")
                 s == Trimmed(df.rows[i], "subcategory")
             IN /\ c = <<>> => issue_keys[i] = UNCLASSIFIED
                /\ (c # <<>> /\ s = <<>>) => issue_keys[i] = c
                /\ (c # <<>> /\ s # <<>>) => issue_keys[i] = c \o <<" > ">> \o s

\* The lower-cased concatenation of the four columns has a term of the set.
Matches(row, terms) ==
    LET parts == [k \in 1..4 |->
                    LET v == Get(row, <<"category", "subcategory", "content_text", "content">>[k])
                    IN IF v = NoneVal THEN <<>> ELSE v]
        text == Lower(parts[1] \o <<"sp">> \o parts[2] \o <<"sp">> \o parts[3] \o <<"sp">> \o parts[4])
    IN \E t \in terms : \E i \in 1..Len(text) : \E j \in i..Len(text) : SubSeq(text, i, j) = t

\* C10: every row gets exactly one phase: that of the first pattern set, in the
\* order preparation, in-progress, support, administrative, with a term in the
\* lower-cased concatenation of category, subcategory, content_text and content;
\* a row matching no set is in-progress, never "other".
C10_FirstMatchWins ==
    pc = "phased" =>
        /\ Len(phases) = Len(df.rows)
        /\ \A i \in 1..Len(df.rows) :
             LET row == df.rows[i]
                 prep == Matches(row, PrepTerms)
                 prog == Matches(row, ProgressTerms)
                 supp == Matches(row, SupportTerms)
                 admin == Matches(row, AdminTerms)
             IN /\ phases[i] \in {PHASE_PREP, PHASE_PROGRESS, PHASE_SUPPORT, PHASE_ADMIN}
                /\ prep => phases[i] = PHASE_PREP
                /\ (~prep /\ prog) => phases[i] = PHASE_PROGRESS
                /\ (~prep /\ ~prog /\ supp) => phases[i] = PHASE_SUPPORT
                /\ (~prep /\ ~prog /\ ~supp /\ admin) => phases[i] = PHASE_ADMIN
                /\ (~prep /\ ~prog /\ ~supp /\ ~admin) => phases[i] = PHASE_PROGRESS

\* C10 witness: a row with a preparation term and an administrative term has
\* been classified, and so has a row matching no set.
C10_Witness ==
    /\ pc = "phased"
    /\ \E i \in 1..Len(df.rows) :
         /\ Matches(df.rows[i], PrepTerms)
         /\ Matches(df.rows[i], AdminTerms)
         /\ phases[i] = PHASE_PREP

\* A classified row that matches no pattern set (the default case of C10).
C10_DefaultReached ==
    /\ pc = "phased"
    /\ \E i \in 1..Len(df.rows) :
         /\ ~Matches(df.rows[i], PrepTerms \cup ProgressTerms \cup SupportTerms \cup AdminTerms)
         /\ phases[i] = PHASE_PROGRESS

(***************************************************************************)
(* Aggregation helpers                                                     *)
(***************************************************************************)

\* The rows of a DataFrame picked by index labels (a window of df).
Take(d, idx) == [columns |-> d.columns, rows |-> [k \in 1..Len(idx) |-> d.rows[idx[k]]]]

\* df.empty
IsEmpty(d) == Len(d.rows) = 0 \/ Len(d.columns) = 0

RECURSIVE Uniques(_, _)
\* The distinct values of a Series in order of first occurrence.
Uniques(s, seen) ==
    IF s = <<>> THEN <<>>
    ELSE IF Head(s) \in seen THEN Uniques(Tail(s), seen)
    ELSE <<Head(s)>> \o Uniques(Tail(s), seen \cup {Head(s)})

\* The number of occurrences of v in a Series.
CountOf(s, v) == Cardinality({i \in 1..Len(s) : s[i] = v})

RECURSIVE InsertDesc(_, _)
\* Insert an entry after every entry whose count is not smaller (a stable
\* descending order).
InsertDesc(sorted, e) ==
    IF sorted = <<>> THEN <<e>>
    ELSE IF Head(sorted).count >= e.count THEN <<Head(sorted)>> \o InsertDesc(Tail(sorted), e)
    ELSE <<e>> \o sorted

RECURSIVE SortDesc(_, _)
\* list.sort(key=count, reverse=True) / sort_values(ascending=False): stable.
SortDesc(entries, acc) ==
    IF entries = <<>> THEN acc
    ELSE SortDesc(Tail(entries), InsertDesc(acc, Head(entries)))

\* Series.value_counts(): (value, count) by descending count, missing values
\* not counted; here with equal counts in order of first occurrence, the order
\* a stable sort gives.  Used where the order is not read (get, index set).
value_counts(s) ==
    LET present == SelectSeq(s, LAMBDA v : v # NoneVal)
        u == Uniques(present, {})
    IN SortDesc([k \in 1..Len(u) |-> [key |-> u[k], count |-> CountOf(present, u[k])]], <<>>)

\* The orders Series.value_counts() can return: it sorts the counts with
\* sort_values(ascending=False), whose default kind, quicksort, is not a stable
\* sort, so values with equal counts come in an order the build decides.
value_counts_outcomes(s) ==
    LET vc == value_counts(s)
        n == Len(vc)
        perms == {q \in [1..n -> 1..n] :
                    /\ \A i, j \in 1..n : q[i] = q[j] => i = j
                    /\ \A i, j \in 1..n : i < j => vc[q[i]].count >= vc[q[j]].count}
    IN {[k \in 1..n |-> vc[q[k]]] : q \in perms}

\* The keys of a value_counts result.
KeysOf(counts) == {counts[k].key : k \in 1..Len(counts)}

\* counts.get(key, 0)
CountGet(counts, key) ==
    IF \E k \in 1..Len(counts) : counts[k].key = key
    THEN counts[CHOOSE k \in 1..Len(counts) : counts[k].key = key].count
    ELSE 0

\* list[:limit]
HeadN(s, limit) == SubSeq(s, 1, IF Len(s) < limit THEN Len(s) ELSE limit)

\* round(n / d) to the nearest integer, halves to the even one (d > 0).
RoundDiv(n, d) ==
    LET q == n \div d
        r == n - q * d
    IN IF 2 * r < d THEN q
       ELSE IF 2 * r > d THEN q + 1
       ELSE IF q % 2 = 0 THEN q ELSE q + 1

(***************************************************************************)
(* month_over_month_change and build_trend_cards                           *)
(***************************************************************************)

\* The lengths, in days, of the months of 2024.
MonthLengths == <<31, 29, 31, 30, 31, 30, 31, 31, 30, 31, 30, 31>>

RECURSIVE MonthStartDay(_)
\* The day number (days since 2024-01-01) of the first day of month m (1..12).
MonthStartDay(m) == IF m = 1 THEN 0 ELSE MonthStartDay(m - 1) + MonthLengths[m - 1]

\* The month (1..12) of a naive UTC instant of 2024.
MonthOf(t) ==
    CHOOSE m \in 1..12 :
        /\ Days(MonthStartDay(m)) <= t
        /\ t < Days(MonthStartDay(m) + MonthLengths[m])

\* month_start + pd.offsets.MonthEnd(0): the last day of the month at 00:00.
MonthEnd0(m) == Days(MonthStartDay(m) + MonthLengths[m] - 1)

\* created_naive.between(start, end): both ends included.
Between(t, lo, hi) == lo <= t /\ t <= hi

\* The index labels of the rows with a valid created_at (dropna).
ValidIdx(d) == SelectSeq([i \in 1..Len(d.rows) |-> i], LAMBDA i : CreatedOf(d, i) # NaT)

\* max of a non-empty set of instants.
MaxOf(S) == CHOOSE x \in S : \A y \in S : y <= x

\* min of a non-empty set of instants.
MinOf(S) == CHOOSE x \in S : \A y \in S : x <= y

\* The category Series of the rows of df whose UTC instant is in month m's
\* range (this_month["category"] / prev_month["category"]).
MonthCategories(d, m) ==
    LET idx == SelectSeq(ValidIdx(d), LAMBDA i :
                   Between(CreatedOf(d, i), Days(MonthStartDay(m)), MonthEnd0(m)))
    IN [k \in 1..Len(idx) |-> Get(d.rows[idx[k]], "category")]

\* The change of one category: the infinite sentinel, or a fraction of 100.
ChangeOf(current, previous) ==
    IF previous = 0
    THEN [inf |-> current > 0, num |-> 0, den |-> 1]
    ELSE [inf |-> FALSE, num |-> (current - previous) * 100, den |-> previous]

\* month_over_month_change(df): the changes keyed by category (none when both
\* months are empty); the dict's order is that of iterating the set
\* `categories`.  Counts are exact integers, the change an exact fraction.
month_over_month_change(d) ==
    IF ~HasColumn(d, "created_at") \/ ~HasColumn(d, "category") THEN <<>>
    ELSE IF ValidIdx(d) = <<>> THEN <<>>
    ELSE LET latest == MonthOf(MaxOf({CreatedOf(d, i) : i \in Range(ValidIdx(d))}))
             this_counts == value_counts(MonthCategories(d, latest))
             prev_counts ==
                 IF latest = 1 THEN <<>> ELSE value_counts(MonthCategories(d, latest - 1))
             categories == KeysOf(this_counts) \cup KeysOf(prev_counts)
         IN [c \in categories |->
                ChangeOf(CountGet(this_counts, c), CountGet(prev_counts, c))]

\* A card whose status is `increase` only above 20 and `moderate` only above 5.
TrendCard_strict(category, delta) ==
    [ category |-> category,
      change_pct |-> [ null |-> delta.inf,
                       tenths |-> IF delta.inf THEN 0 ELSE RoundDiv(delta.num * 10, delta.den) ],
      status |-> IF delta.inf THEN "increase"
                 ELSE IF delta.num > 20 * delta.den THEN "increase"
                 ELSE IF delta.num > 5 * delta.den THEN "moderate"
                 ELSE "stable" ]

\* The card of one category (build_trend_cards, lines 631-650); change_pct is
\* null (None) for the infinite sentinel, else a number of tenths of a percent.
TrendCard(category, delta) ==
    [ category |-> category,
      change_pct |-> [ null |-> delta.inf,
                       tenths |-> IF delta.inf THEN 0 ELSE RoundDiv(delta.num * 10, delta.den) ],
      status |-> IF delta.inf THEN "increase"
                 ELSE IF delta.num >= 20 * delta.den THEN "increase"
                 ELSE IF delta.num >= 5 * delta.den THEN "moderate"
                 ELSE "stable" ]

\* The orders in which a set can be iterated.
Orders(S) == {o \in [1..Cardinality(S) -> S] : \A i, j \in 1..Cardinality(S) : o[i] = o[j] => i = j}

\* build_trend_cards(df), the set `categories` iterated in the given order.
build_trend_cards(d, order) ==
    LET changes == month_over_month_change(d) IN
    [k \in 1..Len(order) |-> TrendCard(order[k], changes[order[k]])]

(***************************************************************************)
(* Issue ranking, phase aggregation, quotes                                *)
(***************************************************************************)

\* A change percentage that is 0 whenever previous = 0.
change_percentage_zero(current, previous) ==
    IF previous = 0 THEN [num |-> 0, den |-> 1]
    ELSE [num |-> (current - previous) * 100, den |-> previous]

\* change_percentage(current, previous), as a fraction num / den.
change_percentage(current, previous) ==
    IF previous = 0 /\ current > 0 THEN [num |-> 100, den |-> 1]
    ELSE IF previous = 0 /\ current = 0 THEN [num |-> 0, den |-> 1]
    ELSE [num |-> (current - previous) * 100, den |-> IF previous > 1 THEN previous ELSE 1]

\* round(x, 1), in tenths.
Round1(x) == RoundDiv(x.num * 10, x.den)

\* build_issue_summary(issue_key, change_pct): the parts of
\* f"{issue_key} 전월 대비 {sign}{rounded}%".
build_issue_summary(issue_key, change_tenths) ==
    [ issue_key |-> issue_key,
      sign |-> IF change_tenths >= 0 THEN "+" ELSE "",
      rounded |-> RoundDiv(change_tenths, 10) ]

\* The text a row offers as a quote: content_text, else content, trimmed.
\* (No text of the tables below has a line break or more than 120 characters.)
QuoteText(row) ==
    LET t1 == StrOrEmpty(Get(row, "content_text"))
        t2 == IF t1 = <<>> THEN StrOrEmpty(Get(row, "content")) ELSE t1
    IN Strip(t2)

\* f'예: "{text_value}"'
QuoteOf(text) == <<"ye: ">> \o text

\* The first quotes_per_issue quotes among the rows picked by idx.
QuotesOf(d, idx, quotes_per_issue) ==
    LET with == SelectSeq(idx, LAMBDA i : QuoteText(d.rows[i]) # <<>>) IN
    [k \in 1..Len(HeadN(with, quotes_per_issue)) |-> QuoteOf(QuoteText(d.rows[with[k]]))]

\* One entry of an issue list.
IssueEntry(issue_key, count, previous, quotes) ==
    LET change == Round1(change_percentage(count, previous)) IN
    [ issue_key |-> issue_key, count |-> count, previous_count |-> previous,
      change_pct |-> change, summary |-> build_issue_summary(issue_key, change),
      quotes |-> quotes ]

\* compute_issue_counts(df), where the order of the dict is not read.
compute_issue_counts(d) == value_counts(compose_issue_keys(d))

\* The dicts compute_issue_counts(df) can return, in key order.
compute_issue_counts_outcomes(d) == value_counts_outcomes(compose_issue_keys(d))

\* summarize_top_issues(current_df, previous_df, limit, quotes_per_issue), given
\* the dict current_counts that compute_issue_counts(current_df) returned.
summarize_top_issues(current_df, previous_df, limit, quotes_per_issue, current_counts) ==
    LET previous_counts == compute_issue_counts(previous_df)
        issue_keys_ == compose_issue_keys(current_df)
        all == [i \in 1..Len(current_df.rows) |-> i]
        rows == [k \in 1..Len(current_counts) |->
                   LET key == current_counts[k].key IN
                   IssueEntry(key, current_counts[k].count, CountGet(previous_counts, key),
                              QuotesOf(current_df,
                                       SelectSeq(all, LAMBDA i : issue_keys_[i] = key),
                                       quotes_per_issue))]
    IN HeadN(SortDesc(rows, <<>>), limit)

\* aggregate_phase_counts(df): phase label -> count.
aggregate_phase_counts(d) ==
    IF IsEmpty(d) THEN <<>>
    ELSE IF ~HasColumn(d, "category") THEN <<>>
    ELSE LET ph == [i \in 1..Len(d.rows) |-> map_category_to_phase(d.rows[i]["category"])] IN
         [p \in Range(ph) |-> CountOf(ph, p)]

\* A previous count that ignores the phase of the previous rows.
PhasePrevCount_anyphase(previous_df, phase, issue_key) ==
    CountOf(compose_issue_keys(previous_df), issue_key)

\* prev_counts.get(phase, {}).get(issue_key, 0) (lines 590-595, 600): the rows
\* of previous_df of that phase and issue key.
PhasePrevCount(previous_df, phase, issue_key) ==
    LET prev_issues == compose_issue_keys(previous_df) IN
    Cardinality({i \in 1..Len(previous_df.rows) :
                    /\ determine_phase_from_row(previous_df.rows[i]) = phase
                    /\ prev_issues[i] = issue_key})

\* aggregate_phase_breakdown(current_df, previous_df, quotes_per_issue, top_per_phase)
aggregate_phase_breakdown(current_df, previous_df, quotes_per_issue, top_per_phase) ==
    IF IsEmpty(current_df) THEN <<>>
    ELSE
    LET current_phase == [i \in 1..Len(current_df.rows) |->
                              determine_phase_from_row(current_df.rows[i])]
        current_issues == compose_issue_keys(current_df)
        all == [i \in 1..Len(current_df.rows) |-> i]
        Bucket(phase) ==
            LET members == SelectSeq(all, LAMBDA i : current_phase[i] = phase)
                keys == [k \in 1..Len(members) |-> current_issues[members[k]]]
                u == Uniques(keys, {})
                issues_list ==
                    [k \in 1..Len(u) |->
                        IssueEntry(u[k], CountOf(keys, u[k]),
                                   PhasePrevCount(previous_df, phase, u[k]),
                                   QuotesOf(current_df,
                                            SelectSeq(members, LAMBDA i : current_issues[i] = u[k]),
                                            quotes_per_issue))]
            IN [ total |-> Len(members),
                 issues |-> HeadN(SortDesc(issues_list, <<>>), top_per_phase) ]
    IN [p \in Range(current_phase) |-> Bucket(p)]

\* extract_quotes(df, limit): the trimmed content_text of the first rows.
extract_quotes(d, limit) ==
    IF IsEmpty(d) THEN <<>>
    ELSE LET first == HeadN([i \in 1..Len(d.rows) |-> i], limit) IN
         [k \in 1..Len(first) |-> Strip(StrOrEmpty(Get(d.rows[first[k]], "content_text")))]

\* extract_date_info(df)
extract_date_info(d) ==
    IF ~HasColumn(d, "created_at")
    THEN [min |-> NaT, max |-> NaT, invalid_count |-> Len(d.rows)]
    ELSE LET valid == {CreatedOf(d, i) : i \in Range(ValidIdx(d))} IN
         [ min |-> IF valid = {} THEN NaT ELSE MinOf(valid),
           max |-> IF valid = {} THEN NaT ELSE MaxOf(valid),
           invalid_count |-> Len(d.rows) - Len(ValidIdx(d)) ]

\* summarise_stats(df), the clock reading `now`: the fields build_report uses.
summarise_stats(d, now) ==
    LET w == compute_recent_windows_kst(d, now)
        date_info == extract_date_info(d)
    IN [ total_count |-> Len(d.rows),
         recent_30d_count |-> Len(w.recent_30d),
         recent_90d_count |-> Len(w.recent_90d),
         prev_30d_count |-> Len(w.prev_30d),
         created_at_min |-> date_info.min,
         created_at_max |-> date_info.max,
         created_at_invalid_rows |-> date_info.invalid_count ]

\* The report build_report assembles from its locals; `order` is the order in
\* which month_over_month_change iterated its set of categories and
\* current_counts the dict compute_issue_counts(recent_30) returned.
ReportOf(d, generated_at, w, st, order, current_counts) ==
    LET recent_30 == Take(d, w.recent_30d)
        prev_30 == Take(d, w.prev_30d)
        top_issues == summarize_top_issues(recent_30, prev_30, 5, 2, current_counts)
    IN [ meta |-> [ generated_at |-> generated_at,
                    analysis_period |-> [start |-> st.created_at_min, end |-> st.created_at_max],
                    total_count |-> st.total_count ],
         windows |-> [ recent_30d_count |-> st.recent_30d_count,
                       prev_30d_count |-> st.prev_30d_count,
                       recent_90d_count |-> st.recent_90d_count ],
         issues |-> [ top_recent_30d |->
                          [k \in 1..Len(top_issues) |->
                              [ rank |-> k,
                                issue_key |-> top_issues[k].issue_key,
                                count |-> top_issues[k].count,
                                previous_count |-> top_issues[k].previous_count,
                                change_pct |-> top_issues[k].change_pct,
                                summary |-> top_issues[k].summary,
                                quotes |-> top_issues[k].quotes ]],
                      phase_counts |-> aggregate_phase_counts(recent_30),
                      phase_breakdown |-> aggregate_phase_breakdown(recent_30, prev_30, 2, 6),
                      trend_cards |-> build_trend_cards(d, order) ],
         samples |-> [ recent_quotes |-> extract_quotes(recent_30, 2) ],
         recommendations |-> [ short_term |-> <<>>, mid_term |-> <<>>, long_term |-> <<>> ] ]

(***************************************************************************)
(* Spec: build_report, run up to MaxBuilds times on one dataset while the  *)
(* wall clock may advance                                                  *)
(***************************************************************************)
MaxRows == 2

MaxBuilds == 2

MaxTicks == 1

\* The wall clock when the first build starts: 23:00 Asia/Seoul on RefDay.
StartClock == Days(RefDay) + 14

\* created_at of the rows: invalid, today, 29 days ago, 40 days ago (03:00Z).
ReportCreatedValues ==
    {NaT, Days(RefDay) + 3, Days(RefDay - 29) + 3, Days(RefDay - 40) + 3}

\* The category, subcategory and content of the rows: 장비 with plain text,
\* 지원금 / 로그인 with a structured content, and no category / 로그인.
ReportRowKinds ==
    { [category |-> <<"jangbi">>, subcategory |-> <<>>, content |-> <<"x">>],
      [category |-> <<"jiwon", "geum">>, subcategory |-> <<"rogeuin">>,
       content |-> <<"{", "k_desc", "v_text", "}">>],
      [category |-> NoneVal, subcategory |-> <<"rogeuin">>, content |-> <<"x">>] }

\* A row as standardise_columns leaves it: content_text derived from content
\* (created_at_raw, which no aggregation reads, is left out).
StandardRow(created_at, kind) ==
    [ created_at |-> created_at, category |-> kind.category,
      subcategory |-> kind.subcategory, content |-> kind.content,
      content_text |-> ContentTextOf(kind, <<>>) ]

Init ==
    /\ pc = "idle"
    /\ raw = NoTable
    /\ reference = NaT
    /\ windows = NoWindows
    /\ issue_keys = <<>>
    /\ phases = <<>>
    /\ clock = StartClock
    /\ frozen \in BOOLEAN
    /\ now_kst = NaT
    /\ stats = NoStats
    /\ reports = <<>>
    /\ AggIdle
    /\ ApiIdle
    /\ \E n \in 0..MaxRows :
         \E c \in [1..n -> ReportCreatedValues] : \E k \in [1..n -> ReportRowKinds] :
            df = [ columns |-> <<"created_at", "category", "subcategory", "content",
                                 "content_text">>,
                   rows |-> [i \in 1..n |-> StandardRow(c[i], k[i])] ]

\* Time passes.
Tick ==
    /\ ~frozen
    /\ clock < StartClock + MaxTicks
    /\ clock' = clock + 1
    /\ UNCHANGED <<aggVars, apiVars, pc, raw, df, winVars, rowVars, frozen, now_kst, stats, reports>>

\* build_report, lines 676-677: now_kst = now(); windows = compute_recent_windows_kst(df, now_kst)
BuildWindows ==
    /\ pc = "idle"
    /\ Len(reports) < MaxBuilds
    /\ now_kst' = clock
    /\ windows' = compute_recent_windows_kst(df, clock)
    /\ pc' = "windows"
    /\ UNCHANGED <<aggVars, apiVars, raw, df, reference, rowVars, clock, frozen, stats, reports>>

\* build_report, line 678: stats = summarise_stats(df), which reads the clock again.
BuildStats ==
    /\ pc = "windows"
    /\ stats' = summarise_stats(df, clock)
    /\ pc' = "stats"
    /\ UNCHANGED <<aggVars, apiVars, raw, df, winVars, rowVars, clock, frozen, now_kst, reports>>

\* build_report, lines 680-729: the report, its trend cards in the order the
\* process iterates the set of categories, its issues from the counts in the
\* order value_counts returned them.
BuildAssemble ==
    /\ pc = "stats"
    /\ \E order \in Orders(DOMAIN month_over_month_change(df)) :
         \E current_counts \in compute_issue_counts_outcomes(Take(df, windows.recent_30d)) :
            reports' = Append(reports, ReportOf(df, now_kst, windows, stats, order,
                                                current_counts))
    /\ pc' = "idle"
    /\ UNCHANGED <<aggVars, apiVars, raw, df, winVars, rowVars, clock, frozen, now_kst, stats>>

Next == Tick \/ BuildWindows \/ BuildStats \/ BuildAssemble

Spec == Init /\ [][Next]_vars

\* The report of the last finished build.
LastReport == reports[Len(reports)]

\* C6: every window-derived field of a report is computed against one
\* reference instant: windows.recent_30d_count is the size of the recent_30d
\* row set used for the issues and samples, and windows.prev_30d_count the size
\* of the prev_30d row set, even if the wall clock advances during the build.
C6_SingleReferenceInstant ==
    (pc = "idle" /\ reports # <<>>) =>
        /\ LastReport.windows.recent_30d_count = Len(windows.recent_30d)
        /\ LastReport.windows.prev_30d_count = Len(windows.prev_30d)

\* C7: two reports built from the same dataset at the same frozen reference
\* instant are identical, the order of trend_cards included.
C7_RebuildIdentical ==
    (frozen /\ Len(reports) >= 2) => reports[1] = reports[2]

\* C9: in a report, phase_counts has the phase labels of phase_breakdown and
\* phase_counts[p] = phase_breakdown[p].total: both count the rows of recent_30d
\* per phase of determine_phase_from_row.
C9_PhaseCountsMatchBreakdown ==
    \A k \in 1..Len(reports) :
        LET counts == reports[k].issues.phase_counts
            breakdown == reports[k].issues.phase_breakdown
        IN /\ DOMAIN counts = DOMAIN breakdown
           /\ \A p \in DOMAIN counts : counts[p] = breakdown[p].total

(***************************************************************************)
(* SpecMonth: month_over_month_change and build_trend_cards applied to a   *)
(* DataFrame                                                               *)
(***************************************************************************)
MaxMonthRows == 2

MaxMonthCount == 21

\* created_at of the rows: invalid, and instants of January to March 2024
\* at the month boundaries (UTC).
MonthCreatedValues ==
    { NaT,
      Days(MonthStartDay(1) + 30) + 23,  \* 2024-01-31T23:00Z
      Days(MonthStartDay(2)),            \* 2024-02-01T00:00Z
      Days(MonthStartDay(2) + 28),       \* 2024-02-29T00:00Z
      Days(MonthStartDay(2) + 28) + 12,  \* 2024-02-29T12:00Z
      Days(MonthStartDay(3)),            \* 2024-03-01T00:00Z
      Days(MonthStartDay(3) + 30),       \* 2024-03-31T00:00Z
      Days(MonthStartDay(3) + 30) + 3 }  \* 2024-03-31T03:00Z

\* category of the rows: 장비, 지원금, missing.
MonthCategoryValues == {<<"jangbi">>, <<"jiwon", "geum">>, NoneVal}

\* A DataFrame with `current` rows of 장비 on 2024-03-10 and `previous` rows of
\* 장비 on 2024-02-10, one row of 지원금 on each of the two days.
BulkTable(current, previous) ==
    LET row(day, cat) == [created_at |-> Days(day) + 3, category |-> cat] IN
    [ columns |-> <<"created_at", "category">>,
      rows |-> <<row(MonthStartDay(3) + 9, <<"jiwon", "geum">>),
                 row(MonthStartDay(2) + 9, <<"jiwon", "geum">>)>>
               \o [k \in 1..current |-> row(MonthStartDay(3) + 9, <<"jangbi">>)]
               \o [k \in 1..previous |-> row(MonthStartDay(2) + 9, <<"jangbi">>)] ]

InitMonth ==
    /\ pc = "ready"
    /\ raw = NoTable
    /\ reference = NaT
    /\ windows = NoWindows
    /\ issue_keys = <<>>
    /\ phases = <<>>
    /\ ReportIdle
    /\ AggIdle
    /\ ApiIdle
    /\ \/ \E n \in 0..MaxMonthRows :
            \E r \in [1..n -> [created_at : MonthCreatedValues,
                               category : MonthCategoryValues]] :
               df = [columns |-> <<"created_at", "category">>, rows |-> r]
       \/ \E current \in 0..MaxMonthCount : \E previous \in 0..MaxMonthCount :
            df = BulkTable(current, previous)

\* result = month_over_month_change(df)
MonthOverMonthChange ==
    /\ pc = "ready"
    /\ result' = month_over_month_change(df)
    /\ pc' = "changes"
    /\ UNCHANGED <<raw, df, winVars, rowVars, reportVars, args, apiVars>>

\* result = build_trend_cards(df); args is the order in which
\* month_over_month_change iterated its set of categories.
BuildTrendCards ==
    /\ pc = "ready"
    /\ \E order \in Orders(DOMAIN month_over_month_change(df)) :
         /\ args' = order
         /\ result' = build_trend_cards(df, order)
    /\ pc' = "cards"
    /\ UNCHANGED <<raw, df, winVars, rowVars, reportVars, apiVars>>

NextMonth == MonthOverMonthChange \/ BuildTrendCards

SpecMonth == InitMonth /\ [][NextMonth]_vars

\* The valid-dated rows of df with category c whose UTC instant is in month m.
RowsOfMonth(m, c) ==
    {i \in 1..Len(df.rows) :
        /\ CreatedOf(df, i) # NaT
        /\ MonthOf(CreatedOf(df, i)) = m
        /\ Get(df.rows[i], "category") = c}

\* The calendar month of the maximum valid timestamp of df.
LatestMonth == MonthOf(MaxOf({CreatedOf(df, i) : i \in Range(ValidIdx(df))}))

\* C11: the changes month_over_month_change returns are those of the whole
\* calendar months: for every category with a row in the month of the maximum
\* valid timestamp or in the month before it, the change of (number of its rows
\* anywhere in the current month, the last day at any time of day included)
\* against (number of its rows anywhere in the previous month).
C11_WholeCalendarMonths ==
    (pc = "changes" /\ ValidIdx(df) # <<>>) =>
        LET cats == {c \in MonthCategoryValues \ {NoneVal} :
                        RowsOfMonth(LatestMonth, c) \cup RowsOfMonth(LatestMonth - 1, c) # {}}
        IN result = [c \in cats |->
                        ChangeOf(Cardinality(RowsOfMonth(LatestMonth, c)),
                                 Cardinality(RowsOfMonth(LatestMonth - 1, c)))]

(***************************************************************************)
(* SpecIssues: change_percentage, summarize_top_issues and                 *)
(* aggregate_phase_breakdown applied to a current and a previous row set   *)
(***************************************************************************)
MaxCurrentRows == 3

MaxPreviousRows == 1

MaxIssueCount == 15

\* The rows of the row sets: category x with a preparation text (노트북),
\* category x with an administrative text (환불), category 장비, and
\* 장비 / 대여 without any text.
IssueRowKinds ==
    { [category |-> <<"x">>, subcategory |-> <<>>,
       content |-> <<"noteubuk">>, content_text |-> <<"noteubuk">>],
      [category |-> <<"x">>, subcategory |-> <<>>,
       content |-> <<"hwanbul">>, content_text |-> <<"hwanbul">>],
      [category |-> <<"jangbi">>, subcategory |-> <<>>,
       content |-> <<"y">>, content_text |-> <<"y">>],
      [category |-> <<"jangbi">>, subcategory |-> <<"daeyeo">>,
       content |-> NoneVal, content_text |-> <<>>] }

\* The rows of the previous row set: those of category x, in either phase.
PreviousRowKinds == {k \in IssueRowKinds : k.category = <<"x">>}

\* A row set of the given rows.
IssueTable(rows) ==
    [columns |-> <<"category", "subcategory", "content", "content_text">>, rows |-> rows]

\* A row set of n rows of 장비 / 대여.
BulkIssueTable(n) ==
    IssueTable([k \in 1..n |-> [category |-> <<"jangbi">>, subcategory |-> <<"daeyeo">>,
                                content |-> <<"y">>, content_text |-> <<"y">>]])

\* Two counts for change_percentage, or a current and a previous row set.
InitIssues ==
    /\ pc = "ready"
    /\ raw = NoTable
    /\ reference = NaT
    /\ windows = NoWindows
    /\ issue_keys = <<>>
    /\ phases = <<>>
    /\ ReportIdle
    /\ ApiIdle
    /\ result = <<>>
    /\ \/ \E current \in 0..MaxIssueCount : \E previous \in 0..MaxIssueCount :
            \/ /\ df = NoTable
               /\ args = [current |-> current, previous |-> previous]
            \/ /\ df = BulkIssueTable(current)
               /\ args = [previous_df |-> BulkIssueTable(previous)]
       \/ \E n \in 0..MaxCurrentRows : \E k \in 0..MaxPreviousRows :
            \E r \in [1..n -> IssueRowKinds] : \E q \in [1..k -> PreviousRowKinds] :
               /\ df = IssueTable(r)
               /\ args = [previous_df |-> IssueTable(q)]

\* change = round(change_percentage(current, previous), 1)   (lines 501, 601)
ChangePercentage ==
    /\ pc = "ready"
    /\ "current" \in DOMAIN args
    /\ result' = Round1(change_percentage(args.current, args.previous))
    /\ pc' = "change"
    /\ UNCHANGED <<raw, df, winVars, rowVars, reportVars, args, apiVars>>

\* result = summarize_top_issues(df, previous_df, limit)
SummarizeTopIssues ==
    /\ pc = "ready"
    /\ "previous_df" \in DOMAIN args
    /\ \E limit \in {2, 5} : \E current_counts \in compute_issue_counts_outcomes(df) :
         /\ args' = [previous_df |-> args.previous_df, limit |-> limit,
                     current_counts |-> current_counts]
         /\ result' = summarize_top_issues(df, args.previous_df, limit, 2, current_counts)
    /\ pc' = "issues"
    /\ UNCHANGED <<raw, df, winVars, rowVars, reportVars, apiVars>>

\* result = aggregate_phase_breakdown(df, previous_df, top_per_phase=...)
AggregatePhaseBreakdown ==
    /\ pc = "ready"
    /\ "previous_df" \in DOMAIN args
    /\ \E top_per_phase \in {1, 2, 6} :
         /\ args' = [previous_df |-> args.previous_df, top_per_phase |-> top_per_phase]
         /\ result' = aggregate_phase_breakdown(df, args.previous_df, 2, top_per_phase)
    /\ pc' = "breakdown"
    /\ UNCHANGED <<raw, df, winVars, rowVars, reportVars, apiVars>>

NextIssues == ChangePercentage \/ SummarizeTopIssues \/ AggregatePhaseBreakdown

SpecIssues == InitIssues /\ [][NextIssues]_vars

\* t tenths of a percent is the change percentage of the rule for the counts:
\* 100.0 or 0.0 when previous = 0, else a nearest tenth of
\* (current - previous) / max(1, previous) * 100.
IsChangePct(t, current, previous) ==
    IF previous = 0 THEN t = (IF current > 0 THEN 1000 ELSE 0)
    ELSE LET d == IF previous > 1 THEN previous ELSE 1
             x == (current - previous) * 1000 - t * d
         IN 2 * x <= d /\ -2 * x <= d

\* C12: round(change_percentage(current, previous), 1) is 100.0 when
\* previous = 0 and current > 0, 0.0 when both are 0, and otherwise
\* (current - previous) / max(1, previous) * 100 rounded to one decimal; the
\* change_pct of every entry of the issue ranking and of the phase breakdown is
\* that value for the entry's count and previous_count.
C12_ChangePercentage ==
    /\ pc = "change" => IsChangePct(result, args.current, args.previous)
    /\ pc = "issues" =>
         \A k \in 1..Len(result) :
            IsChangePct(result[k].change_pct, result[k].count, result[k].previous_count)
    /\ pc = "breakdown" =>
         \A p \in DOMAIN result : \A k \in 1..Len(result[p].issues) :
            LET e == result[p].issues[k] IN
            IsChangePct(e.change_pct, e.count, e.previous_count)

\* C12 witness: an entry of an issue ranking with count 15 and previous_count
\* 10 carries the change 50.0.
C12_Witness ==
    /\ pc = "issues"
    /\ \E k \in 1..Len(result) :
         /\ result[k].count = 15
         /\ result[k].previous_count = 10
         /\ result[k].change_pct = 500

\* The cases of C12 on change_percentage itself: 0 and 0, 0 and 5, 3 and 4.
C12_FunctionCases ==
    /\ pc = "change"
    /\ \/ args = [current |-> 0, previous |-> 0] /\ result = 0
       \/ args = [current |-> 5, previous |-> 0] /\ result = 1000
       \/ args = [current |-> 4, previous |-> 3] /\ result = 333

(***************************************************************************)
(* SpecTop: top_categories applied to a DataFrame                          *)
(***************************************************************************)
MaxTopRows == 3

\* df["category"].fillna("미분류")
FillNaCategory(d) ==
    [i \in 1..Len(d.rows) |->
        IF IsNa(Get(d.rows[i], "category")) THEN UNCLASSIFIED ELSE Get(d.rows[i], "category")]

\* top_categories(df, limit), given the Series `counts` that value_counts()
\* returned for the filled category column.
top_categories(d, limit, counts) ==
    IF ~HasColumn(d, "category") \/ IsEmpty(d) THEN <<>>
    ELSE HeadN(counts, limit)

\* category of the rows: 장비, 지원금, 로그인, missing.
TopCategoryValues == {<<"jangbi">>, <<"jiwon", "geum">>, <<"rogeuin">>, NoneVal}

\* A table with a category column, or one with only a content column.
InitTop ==
    /\ pc = "ready"
    /\ raw = NoTable
    /\ reference = NaT
    /\ windows = NoWindows
    /\ issue_keys = <<>>
    /\ phases = <<>>
    /\ ReportIdle
    /\ AggIdle
    /\ ApiIdle
    /\ \E n \in 0..MaxTopRows :
         \/ \E r \in [1..n -> [category : TopCategoryValues]] :
              df = [columns |-> <<"category">>, rows |-> r]
         \/ df = [columns |-> <<"content">>, rows |-> [i \in 1..n |-> [content |-> <<"x">>]]]

\* result = top_categories(df, limit)
TopCategories ==
    /\ pc = "ready"
    /\ \E limit \in {1, 2, 5} : \E counts \in value_counts_outcomes(FillNaCategory(df)) :
         /\ args' = [limit |-> limit, counts |-> counts]
         /\ result' = top_categories(df, limit, counts)
    /\ pc' = "top"
    /\ UNCHANGED <<raw, df, winVars, rowVars, reportVars, apiVars>>

NextTop == TopCategories

SpecTop == InitTop /\ [][NextTop]_vars

\* The category a row is grouped under: its category, 미분류 when missing.
GroupOf(i) ==
    IF Get(df.rows[i], "category") = NoneVal THEN UNCLASSIFIED ELSE Get(df.rows[i], "category")

\* The number of rows grouped under category c.
GroupCount(c) == Cardinality({i \in 1..Len(df.rows) : GroupOf(i) = c})

\* The index of the first row grouped under category c.
FirstRowOf(c) == CHOOSE i \in 1..Len(df.rows) : GroupOf(i) = c /\ \A j \in 1..(i - 1) : GroupOf(j) # c

C14_TrendCards ==
    pc = "cards" =>
        LET changes == month_over_month_change(df)
            n == Len(result)
            previous(c) == CountGet(value_counts(MonthCategories(df, LatestMonth - 1)), c)
            current(c) == CountGet(value_counts(MonthCategories(df, LatestMonth)), c)
        IN /\ n = Cardinality(DOMAIN changes)
           /\ {result[k].category : k \in 1..n} = DOMAIN changes
           /\ \A k \in 1..n :
                LET card == result[k]
                    ch == changes[card.category]
                    x == ch.num * 10 - card.change_pct.tenths * ch.den
                IN /\ ch.inf <=> (previous(card.category) = 0 /\ current(card.category) > 0)
                   /\ card.status \in {"increase", "moderate", "stable"}
                   /\ card.status = "increase" <=> (ch.inf \/ ch.num >= 20 * ch.den)
                   /\ card.status = "moderate" <=>
                        (~ch.inf /\ ch.num >= 5 * ch.den /\ ch.num < 20 * ch.den)
                   /\ card.status = "stable" <=> (~ch.inf /\ ch.num < 5 * ch.den)
                   /\ card.change_pct.null <=> ch.inf
                   /\ ~ch.inf => (2 * x <= ch.den /\ -2 * x <= ch.den)

\* C14 witness: the cards of a dataset with a change of exactly 20 percent
\* (increase, 20.0) beside an unchanged category (stable, 0.0).
C14_Witness ==
    /\ pc = "cards"
    /\ \E k \in 1..Len(result) : result[k].status = "increase" /\ result[k].change_pct = [null |-> FALSE, tenths |-> 200]
    /\ \E k \in 1..Len(result) : result[k].status = "stable" /\ result[k].change_pct = [null |-> FALSE, tenths |-> 0]

\* Further cases of C14: a moderate card at exactly 5 percent, a stable card
\* with a negative change, a card of the infinite sentinel.
C14_FurtherCases ==
    /\ pc = "cards"
    /\ \E k \in 1..Len(result) :
         \/ result[k].status = "moderate" /\ result[k].change_pct.tenths = 50
         \/ result[k].status = "stable" /\ result[k].change_pct.tenths = -500
         \/ result[k].status = "increase" /\ result[k].change_pct.null

(***************************************************************************)
(* SpecApi: the API of src/api/main.py, the analyzer process that          *)
(* POST /report/rebuild runs (main with --export-report), and the report   *)
(* file they share                                                         *)
(***************************************************************************)
MaxRequests == 3

\* The number of pieces in which the text of a report reaches the file.
FileChunks == 2

\* What fetch_raw_data can return: pd.DataFrame() for a sheet with no values,
\* a table with the header only, or a table of one row.
SheetTables ==
    { NoTable,
      [ columns |-> <<"created_at", "category", "subcategory", "content", "content_text">>,
        rows |-> <<>> ] }
    \cup { [ columns |-> <<"created_at", "category", "subcategory", "content",
                           "content_text">>,
             rows |-> <<StandardRow(Days(RefDay) + 3, k)>> ] : k \in ReportRowKinds }

\* The file holds all the text of its document.
Complete(file) == file.exists /\ file.written = FileChunks

\* read_report(path): the response of GET /report for the file as it is now.
read_report(file) ==
    IF ~file.exists THEN [req |-> "GET", status |-> 404]
    ELSE IF Complete(file) THEN [req |-> "GET", status |-> 200, body |-> file.doc]
    ELSE [req |-> "GET", status |-> 500]

\* load_report(path) of the dashboard: the report, or {} with a warning (no
\* file) or an error (the text is not JSON) shown.
load_report(file) ==
    IF ~file.exists THEN [req |-> "dashboard", status |-> "missing"]
    ELSE IF Complete(file) THEN [req |-> "dashboard", status |-> "ok", body |-> file.doc]
    ELSE [req |-> "dashboard", status |-> "invalid"]

InitApi ==
    /\ pc = "idle"
    /\ raw = NoTable
    /\ df = NoTable
    /\ reference = NaT
    /\ windows = NoWindows
    /\ issue_keys = <<>>
    /\ phases = <<>>
    /\ clock = StartClock
    /\ frozen = TRUE
    /\ now_kst = NaT
    /\ stats = NoStats
    /\ reports = <<>>
    /\ AggIdle
    /\ ApiIdle

\* GET /report
GetReport ==
    /\ Len(responses) < MaxRequests
    /\ responses' = Append(responses, read_report(report_file))
    /\ UNCHANGED <<pc, raw, df, winVars, rowVars, reportVars, aggVars, report_file, engine>>

\* A dashboard page load: load_report().
DashboardLoad ==
    /\ Len(responses) < MaxRequests
    /\ responses' = Append(responses, load_report(report_file))
    /\ UNCHANGED <<pc, raw, df, winVars, rowVars, reportVars, aggVars, report_file, engine>>

\* POST /report/rebuild, lines 62-71: the analyzer script is missing (500), or
\* subprocess.run starts it.
PostRebuild ==
    /\ engine.pc = "off"
    /\ Len(responses) < MaxRequests
    /\ \/ /\ responses' = Append(responses, [req |-> "POST", status |-> 500])
          /\ UNCHANGED engine
       \/ /\ engine' = [pc |-> "main"]
          /\ UNCHANGED responses
    /\ UNCHANGED <<pc, raw, df, winVars, rowVars, reportVars, aggVars, report_file>>

\* main, lines 809-812: df = fetch_raw_data() raises (exit code 1), or returns
\* a table; an empty one ends the run ("No data available to process.").
EngineFetch ==
    /\ engine.pc = "main"
    /\ \/ /\ engine' = [pc |-> "exited", returncode |-> 1]
          /\ UNCHANGED df
       \/ \E sheet \in SheetTables :
            /\ df' = sheet
            /\ engine' = IF IsEmpty(sheet) THEN [pc |-> "exited", returncode |-> 0]
                         ELSE [pc |-> "fetched"]
    /\ UNCHANGED <<pc, raw, winVars, rowVars, reportVars, aggVars, report_file, responses>>

\* main, line 829: report = build_report(df).  The wall clock stands still in
\* this specification (Spec is the one where it advances during a build).
EngineBuild ==
    /\ engine.pc = "fetched"
    /\ \E order \in Orders(DOMAIN month_over_month_change(df)) :
         \E current_counts \in compute_issue_counts_outcomes(
                                  Take(df, compute_recent_windows_kst(df, clock).recent_30d)) :
            engine' = [pc |-> "built",
                       report |-> ReportOf(df, clock, compute_recent_windows_kst(df, clock),
                                           summarise_stats(df, clock), order, current_counts)]
    /\ UNCHANGED <<pc, raw, df, winVars, rowVars, reportVars, aggVars, report_file, responses>>

\* save_report, line 753: path.write_text opens the file for writing, which
\* truncates it.
EngineOpen ==
    /\ engine.pc = "built"
    /\ report_file' = [exists |-> TRUE, doc |-> engine.report, written |-> 0]
    /\ engine' = [engine EXCEPT !.pc = "writing"]
    /\ UNCHANGED <<pc, raw, df, winVars, rowVars, reportVars, aggVars, responses>>

\* save_report, line 753: the text is written; after the last piece the file
\* is closed and the process ends with exit code 0.
EngineWrite ==
    /\ engine.pc = "writing"
    /\ report_file' = [report_file EXCEPT !.written = @ + 1]
    /\ engine' = IF report_file.written + 1 = FileChunks
                 THEN [pc |-> "exited", returncode |-> 0, report |-> engine.report]
                 ELSE engine
    /\ UNCHANGED <<pc, raw, df, winVars, rowVars, reportVars, aggVars, responses>>

\* POST /report/rebuild, lines 72-77: subprocess.run returns; a non-zero exit
\* code is answered with 500, anything else with the success response.
RebuildReturn ==
    /\ engine.pc = "exited"
    /\ responses' = Append(responses,
                           IF engine.returncode # 0
                           THEN [req |-> "POST", status |-> 500, returncode |-> engine.returncode]
                           ELSE [req |-> "POST", status |-> 200])
    /\ engine' = [engine EXCEPT !.pc = "off"]
    /\ UNCHANGED <<pc, raw, df, winVars, rowVars, reportVars, aggVars, report_file>>

NextApi ==
    \/ GetReport
    \/ DashboardLoad
    \/ PostRebuild
    \/ EngineFetch
    \/ EngineBuild
    \/ EngineOpen
    \/ EngineWrite
    \/ RebuildReturn

SpecApi == InitApi /\ [][NextApi]_vars

\* The report document of an empty dataset: zero counts, empty collections.
IsEmptyReport(doc) ==
    /\ doc.meta.total_count = 0
    /\ doc.windows.recent_30d_count = 0
    /\ doc.windows.prev_30d_count = 0
    /\ doc.windows.recent_90d_count = 0
    /\ doc.issues.top_recent_30d = <<>>
    /\ DOMAIN doc.issues.phase_counts = {}
    /\ DOMAIN doc.issues.phase_breakdown = {}
    /\ doc.issues.trend_cards = <<>>
    /\ doc.samples.recent_quotes = <<>>

\* C15: an analyzer run (--export-report) that fetched an entirely empty
\* dataset is not an error and produces a report document: when it has ended,
\* its exit code is 0 and the report file holds a complete document with
\* total_count 0, the three window counts 0 and empty top_recent_30d,
\* phase_counts, phase_breakdown, trend_cards and recent_quotes.
C15_EmptyDatasetReport ==
    (engine.pc \in {"exited", "off"} /\ "returncode" \in DOMAIN engine /\ IsEmpty(df)) =>
        (engine.returncode = 0 =>
            /\ Complete(report_file)
            /\ IsEmptyReport(report_file.doc))

\* build_report itself, on a dataset with no rows, returns the empty report.
C15_BuildReportOnEmpty ==
    \A k \in 1..Len(reports) : Len(df.rows) = 0 => IsEmptyReport(reports[k])

\* The response to the last POST /report/rebuild answered so far.
LastPost ==
    LET posts == {i \in 1..Len(responses) : responses[i].req = "POST"} IN
    responses[CHOOSE i \in posts : \A j \in posts : j <= i]

\* C16: once POST /report/rebuild has answered for an analyzer run, a failed
\* run (non-zero exit code) was answered with HTTP 500, and after the success
\* response the report file holds, complete, the document that run built, so
\* that GET /report returns that document.
C16_RebuildOverwrites ==
    (engine.pc = "off" /\ "returncode" \in DOMAIN engine) =>
        /\ engine.returncode # 0 => LastPost.status = 500
        /\ LastPost.status = 200 =>
             /\ "report" \in DOMAIN engine
             /\ Complete(report_file)
             /\ report_file.doc = engine.report
             /\ read_report(report_file) = [req |-> "GET", status |-> 200, body |-> engine.report]

\* C19: no read of the report file sees it partially written: GET /report never
\* answers 500 (invalid JSON) and the dashboard never fails to parse the file;
\* each read returns a complete document (or finds no file at all).
C19_NoPartialRead ==
    \A i \in 1..Len(responses) :
        /\ responses[i].req = "GET" => responses[i].status \in {200, 404}
        /\ responses[i].req = "dashboard" => responses[i].status \in {"ok", "missing"}

RECURSIVE SumOver(_, _)
\* The sum of f[x] over the elements x of the finite set S.
SumOver(f, S) ==
    IF S = {} THEN 0
    ELSE LET x == CHOOSE y \in S : TRUE IN f[x] + SumOver(f, S \ {x})

\* C18: for a non-empty current row set, the phase totals of
\* aggregate_phase_breakdown sum to the number of current rows; a phase's
\* total is the sum of the counts of all its issue keys, of which at most
\* top_per_phase are listed, each with its count, so the listed counts sum to at
\* most the total; and each listed issue's previous_count is the number of
\* previous rows with the same issue key classified into the same phase.
C18_PhaseBreakdownConserves ==
    (pc = "breakdown" /\ Len(df.rows) > 0) =>
        LET keys == compose_issue_keys(df)
            previous_df == args.previous_df
            previous_keys == compose_issue_keys(previous_df)
            phase == [i \in 1..Len(df.rows) |-> determine_phase_from_row(df.rows[i])]
            previous_phase == [j \in 1..Len(previous_df.rows) |->
                                  determine_phase_from_row(previous_df.rows[j])]
            rows_of(p) == {i \in 1..Len(df.rows) : phase[i] = p}
            keys_of(p) == {keys[i] : i \in rows_of(p)}
            count(p, c) == Cardinality({i \in rows_of(p) : keys[i] = c})
        IN /\ SumOver([p \in DOMAIN result |-> result[p].total], DOMAIN result) = Len(df.rows)
           /\ \A p \in DOMAIN result :
                LET issues == result[p].issues
                    listed == {issues[k].issue_key : k \in 1..Len(issues)}
                IN /\ result[p].total = Cardinality(rows_of(p))
                   /\ result[p].total = SumOver([c \in keys_of(p) |-> count(p, c)], keys_of(p))
                   /\ Len(issues) = (IF Cardinality(keys_of(p)) < args.top_per_phase
                                     THEN Cardinality(keys_of(p)) ELSE args.top_per_phase)
                   /\ Cardinality(listed) = Len(issues)
                   /\ SumOver([c \in listed |-> count(p, c)], listed) <= result[p].total
                   /\ \A k \in 1..Len(issues) :
                        /\ issues[k].issue_key \in keys_of(p)
                        /\ issues[k].count = count(p, issues[k].issue_key)
                        /\ issues[k].previous_count =
                             Cardinality({j \in 1..Len(previous_df.rows) :
                                 /\ previous_phase[j] = p
                                 /\ previous_keys[j] = issues[k].issue_key})

\* C18 witness: a breakdown with a phase whose issue list was truncated, one
\* of its listed issues having previous_count 0 although the previous set has
\* a row of that issue key, classified into another phase.
C18_Witness ==
    /\ pc = "breakdown"
    /\ \E p \in DOMAIN result :
         /\ Len(result[p].issues) = args.top_per_phase
         /\ result[p].total > SumOver([k \in 1..Len(result[p].issues) |-> result[p].issues[k].count],
                                      1..Len(result[p].issues))
         /\ \E k \in 1..Len(result[p].issues) :
              /\ result[p].issues[k].previous_count = 0
              /\ CountOf(compose_issue_keys(args.previous_df), result[p].issues[k].issue_key) > 0

=============================================================================
